---- MODULE Spec2Model ----
(***************************************************************************)
(* Model of src/index.js: an Express application with four endpoints that  *)
(* relay to a secret store, an embedding provider and a vector index, and  *)
(* a mail transport.  Every request is a record in reqs; a handler runs    *)
(* from its arrival to its first await in one action, and each awaited     *)
(* provider call resumes it in a later action, so that handlers of         *)
(* different requests interleave as they do on the event loop.             *)
(***************************************************************************)
EXTENDS Integers, Sequences, FiniteSets, TLC

\* ---------------------------------------------------------------- bounds
MaxReqs == 2
MaxMatches == 2

\* ------------------------------------------------------- program constants
topK == 10
projectId == "sinewave-mobile"

\* --------------------------------------------------------------- inputs
Undefined == "<undefined>"
PatientIds == {"p1", "p2"}
Usernames == {"alice", Undefined}
Passwords == {"pw1", "pw2"}
EhrTypes == {"epic"}
QueryPatientIds == PatientIds \cup {Undefined, ""}
Diagnoses == {Undefined, "", "diabetes"}
MatchIds == {"E11.9", "Z99"}
MedCodesTable == [id \in {"E11.9"} |-> "Type 2 diabetes"]
ProviderOutcomes == {"ok", "reject"}
AccessOutcomes == {"ok", "reject", "badPayload"}
FaultOutcomes == {"hang", "errorResponse", "terminate"}

\* JavaScript truthiness of the values a field can take here (!x)
Falsy(v) == v \in {Undefined, ""}

\* Names bound at module scope by the require/const lines of index.js
ModuleBindings ==
  {"express", "SecretManagerServiceClient", "OpenAI", "Pinecone", "nodemailer",
   "functions", "cors", "app", "openai", "pc", "indexName", "index", "client"}

\* ----------------------------------------------------------------- JSON
\* An object is a sequence of <<key, value>> members; its text is the token
\* sequence  { k : v , k : v }.  Members whose value is undefined are omitted.
RECURSIVE Members(_)
Members(obj) ==
  IF obj = <<>> THEN <<>>
  ELSE IF Len(obj) = 1 THEN <<obj[1][1], ":", obj[1][2]>>
  ELSE <<obj[1][1], ":", obj[1][2], ",">> \o Members(Tail(obj))

JSON_stringify(obj) ==
  <<"{">> \o Members(SelectSeq(obj, LAMBDA m : m[2] # Undefined)) \o <<"}">>

WellFormed(text) ==
  /\ Len(text) >= 2
  /\ text[1] = "{"
  /\ text[Len(text)] = "}"
  /\ \/ Len(text) = 2
     \/ /\ (Len(text) - 2) % 4 = 3
        /\ \A i \in 2..(Len(text) - 1) :
             /\ ((i - 2) % 4 = 1) => text[i] = ":"
             /\ ((i - 2) % 4 = 3) => text[i] = ","
             /\ ((i - 2) % 4 \in {0, 2}) => text[i] \notin {":", ",", "{", "}"}

SyntaxError == [tag |-> "SyntaxError"]
Null == [tag |-> "null"]

JSON_parse(text) ==
  IF WellFormed(text)
  THEN [tag |-> "object",
        members |-> [n \in 1..((Len(text) - 1) \div 4) |->
                       <<text[4 * n - 2], text[4 * n]>>]]
  ELSE SyntaxError

Buffer_from(text) == [bytes |-> text]
Buffer_toString(buf) == buf.bytes

BadPayload == Buffer_from(<<"not", "json">>)

\* ------------------------------------------------------------- responses
NoBody == <<>>
NewReq(kind, in) ==
  [kind |-> kind, in |-> in, pc |-> "start", status |-> 0, body |-> NoBody,
   nresp |-> 0, fault |-> "none", calls |-> <<>>, mail |-> "none"]

\* res.status(s).json(b): one more response is written for the request
Send(q, s, b) == [q EXCEPT !.status = s, !.body = b, !.nresp = @ + 1]

Call(q, api, outcome) == [q EXCEPT !.calls = Append(@, <<api, outcome>>)]

VARIABLES reqs, containers, versions
vars == <<reqs, containers, versions>>

Init ==
  /\ reqs = <<>>
  /\ containers = {}
  /\ versions = [p \in PatientIds |-> <<>>]

InFlight(q) == q.pc \in {"createSecret", "addSecretVersion", "accessSecretVersion"}

\* ------------------------------------------------------ secret adapter
\* variant: the blob names the third member after the parameter, ehrType
createSecret_secretData_paramName(username, password, ehrType) ==
  JSON_stringify(<<<<"username", username>>, <<"password", password>>,
                   <<"ehrType", ehrType>>>>)

\* createSecret, lines 30-34: the blob written as the secret's payload
createSecret_secretData(username, password, ehrType) ==
  JSON_stringify(<<<<"username", username>>, <<"password", password>>,
                   <<"ehr_type", ehrType>>>>)

\* name of the n-th version of the secret of patientId
VersionName(patientId, n) == <<projectId, "secrets", patientId, "versions", n>>

\* variant: the rejection of client.createSecret is swallowed on its own and
\* the version is added all the same
createSecret_afterCreate_always(outcome) == "addSecretVersion"

\* createSecret, lines 38-63, after client.createSecret settled with outcome:
\* a rejection is caught and gives null, otherwise addSecretVersion is awaited
createSecret_afterCreate(outcome) ==
  IF outcome = "ok" THEN "addSecretVersion" ELSE "return null"

\* variant: the catch returns an empty object instead of null
fetchCredentials_result_empty(outcome, payload) ==
  LET credentials == IF outcome = "reject" THEN SyntaxError
                     ELSE JSON_parse(Buffer_toString(payload))
  IN IF credentials = SyntaxError
     THEN [tag |-> "object", members |-> <<>>]
     ELSE credentials

\* fetchCredentials, lines 70-79, once accessSecretVersion settled
fetchCredentials_result(outcome, payload) ==
  IF outcome = "reject" THEN Null
  ELSE LET credentials == JSON_parse(Buffer_toString(payload))
       IN IF credentials = SyntaxError THEN Null ELSE credentials

\* ------------------------------------------------- the rejected handler
\* An async handler whose promise rejects has no catch in index.js.  What
\* becomes of the request is the runtime's choice: the request is left
\* without a response, the framework's error handler answers 500, or the
\* process terminates on the unhandled rejection, and with it every other
\* request that is awaiting a provider and every pending mail callback.
Unhandled(rs, j, fo) ==
  LET faulted == [rs[j] EXCEPT !.pc = "faulted", !.fault = "TypeError"]
  IN [i \in 1..Len(rs) |->
        IF i = j
        THEN IF fo = "errorResponse"
             THEN Send(faulted, 500, <<<<"error", "Internal Server Error">>>>)
             ELSE faulted
        ELSE IF fo = "terminate" /\ InFlight(rs[i])
             THEN [rs[i] EXCEPT !.pc = "dropped"]
        ELSE IF fo = "terminate" /\ rs[i].pc = "sendMail"
             THEN [rs[i] EXCEPT !.pc = "done", !.mail = "lost"]
        ELSE rs[i]]

\* ------------------------------------------------------ GET /getCredentials
\* variant: the guard tests for an absent parameter only
getCredentials_missing_strict(patientId) == patientId = Undefined

\* lines 83-87: the guard on the query parameter
getCredentials_missing(patientId) == Falsy(patientId)

\* lines 91-95: the response for what fetchCredentials returned
getCredentials_respond(q, credentials) ==
  IF credentials # Null
  THEN Send(q, 200, credentials.members)
  ELSE Send(q, 404, <<<<"message", "Failed to fetch credentials">>>>)

GetCredentials(patientId) ==
  /\ Len(reqs) < MaxReqs
  /\ LET q == NewReq("getCredentials", [patient_id |-> patientId])
     IN reqs' = Append(reqs,
          IF getCredentials_missing(patientId)
          THEN [Send(q, 400, <<<<"message", "patient_id is required">>>>)
                  EXCEPT !.pc = "done"]
          ELSE [q EXCEPT !.pc = "accessSecretVersion"])
  /\ UNCHANGED <<containers, versions>>

\* the provider settles accessSecretVersion(".../versions/latest")
AccessSecretVersionReturn(j, outcome) ==
  /\ j \in 1..Len(reqs)
  /\ reqs[j].pc = "accessSecretVersion"
  /\ LET p == reqs[j].in.patient_id
         found == p \in containers /\ versions[p] # <<>>
         o == IF found THEN outcome ELSE "reject"
         payload == IF o = "badPayload" THEN BadPayload
                    ELSE IF o = "ok" THEN versions[p][Len(versions[p])]
                    ELSE Buffer_from(<<>>)
         credentials == fetchCredentials_result(o, payload)
         q == Call(reqs[j], "accessSecretVersion", o)
     IN reqs' = [reqs EXCEPT ![j] =
                   [getCredentials_respond(q, credentials) EXCEPT !.pc = "done"]]
  /\ UNCHANGED <<containers, versions>>

\* ---------------------------------------------------- POST /storeCredentials
\* line 105: res.json({status, secret_version_id: response.name})
storeCredentials_respond(rs, j, response, fo) ==
  IF response = Null
  THEN Unhandled(rs, j, fo)
  ELSE [rs EXCEPT ![j] =
          [Send(rs[j], 200, <<<<"status", "success">>,
                              <<"secret_version_id", response.name>>>>)
             EXCEPT !.pc = "done"]]

StoreCredentials(username, password, ehr_type, patient_id) ==
  /\ Len(reqs) < MaxReqs
  /\ reqs' = Append(reqs,
       [NewReq("storeCredentials",
               [username |-> username, password |-> password,
                ehr_type |-> ehr_type, patient_id |-> patient_id])
          EXCEPT !.pc = "createSecret"])
  /\ UNCHANGED <<containers, versions>>

\* the provider settles client.createSecret({secretId: patientId})
CreateSecretReturn(j, outcome, fo) ==
  /\ j \in 1..Len(reqs)
  /\ reqs[j].pc = "createSecret"
  /\ LET p == reqs[j].in.patient_id
         o == IF p \in containers THEN "reject" ELSE outcome
         q == Call(reqs[j], "createSecret", o)
         rs == [reqs EXCEPT ![j] = q]
     IN /\ containers' = IF o = "ok" THEN containers \cup {p} ELSE containers
        /\ reqs' = IF createSecret_afterCreate(o) = "addSecretVersion"
                   THEN [rs EXCEPT ![j].pc = "addSecretVersion"]
                   ELSE storeCredentials_respond(rs, j, Null, fo)
  /\ UNCHANGED versions

\* the provider settles client.addSecretVersion({parent, payload})
AddSecretVersionReturn(j, outcome, fo) ==
  /\ j \in 1..Len(reqs)
  /\ reqs[j].pc = "addSecretVersion"
  /\ LET p == reqs[j].in.patient_id
         in == reqs[j].in
         data == Buffer_from(
                   createSecret_secretData(in.username, in.password, in.ehr_type))
         q == Call(reqs[j], "addSecretVersion", outcome)
         rs == [reqs EXCEPT ![j] = q]
         version == [tag |-> "version",
                     name |-> VersionName(p, Len(versions[p]) + 1)]
     IN /\ versions' = IF outcome = "ok"
                       THEN [versions EXCEPT ![p] = Append(@, data)]
                       ELSE versions
        /\ reqs' = storeCredentials_respond(
                     rs, j, IF outcome = "ok" THEN version ELSE Null, fo)
  /\ UNCHANGED containers

\* ---------------------------------------------------- POST /get_medical_codes
\* What the embedding provider and the vector index would answer to one
\* request: the index is only asked when the embedding was made, and only a
\* successful query carries matches (at most topK of them).
RECURSIVE SeqsUpTo(_, _)
SeqsUpTo(S, n) ==
  IF n = 0 THEN {<<>>}
  ELSE SeqsUpTo(S, n - 1) \cup
       {Append(m, x) : m \in {t \in SeqsUpTo(S, n - 1) : Len(t) = n - 1}, x \in S}

Matches == {[id |-> x] : x \in MatchIds}

Envs ==
  {[embed |-> "reject", index |-> "none", matches |-> <<>>],
   [embed |-> "ok", index |-> "reject", matches |-> <<>>]}
  \cup {[embed |-> "ok", index |-> "ok", matches |-> m] :
          m \in {t \in SeqsUpTo(Matches, MaxMatches) : Len(t) <= topK}}
NoEnv == [embed |-> "none", index |-> "none", matches |-> <<>>]

Throw(name) == [tag |-> "throw", error |-> name, calls |-> <<>>]

\* lines 115-119: path and fs are read at module scope, where index.js
\* binds neither
loadMedCodes ==
  IF {"path", "fs"} \subseteq ModuleBindings
  THEN [tag |-> "table", table |-> MedCodesTable]
  ELSE Throw("ReferenceError")

\* lines 129-133: one {code, description} per match, in order
MapMatches(matches, medCodes) ==
  [n \in 1..Len(matches) |->
     LET code == matches[n].id
     IN [code |-> code,
         description |-> IF code \in DOMAIN medCodes /\ ~Falsy(medCodes[code])
                         THEN medCodes[code]
                         ELSE "Description not found"]]

\* lines 121-134
queryCodes(queryText, env) ==
  LET medCodes == loadMedCodes
  IN IF medCodes.tag = "throw" THEN medCodes
     ELSE IF env.embed # "ok"
       THEN [Throw("EmbeddingError") EXCEPT !.calls = <<<<"embeddings", "reject">>>>]
     ELSE IF env.index # "ok"
       THEN [Throw("IndexError") EXCEPT
               !.calls = <<<<"embeddings", "ok">>, <<"query", "reject">>>>]
     ELSE [tag |-> "codes",
           codes |-> MapMatches(env.matches, medCodes.table),
           calls |-> <<<<"embeddings", "ok">>, <<"query", "ok">>>>]

\* variant: the guard tests for an absent field only
get_medical_codes_missing_strict(diagnosis) == diagnosis = Undefined

\* lines 141-143
get_medical_codes_missing(diagnosis) == Falsy(diagnosis)

\* variant: no try/catch, the rejection of queryCodes leaves the handler
get_medical_codes_respond_nocatch(q, result) ==
  IF result.tag = "codes"
  THEN Send(q, 200, <<<<"codes", result.codes>>>>)
  ELSE [q EXCEPT !.fault = result.error]

\* lines 145-153: the try/catch around queryCodes
get_medical_codes_respond(q, result) ==
  IF result.tag = "codes"
  THEN Send(q, 200, <<<<"codes", result.codes>>>>)
  ELSE Send(q, 500, <<<<"error", "Failed to retrieve medical codes">>>>)

GetMedicalCodes(diagnosis, env) ==
  /\ Len(reqs) < MaxReqs
  /\ (get_medical_codes_missing(diagnosis) <=> env = NoEnv)
  /\ LET q == NewReq("get_medical_codes", [diagnosis |-> diagnosis, env |-> env])
     IN reqs' = Append(reqs,
          IF get_medical_codes_missing(diagnosis)
          THEN [Send(q, 400, <<<<"error", "No diagnosis text provided">>>>)
                  EXCEPT !.pc = "done"]
          ELSE LET result == queryCodes(diagnosis, env)
               IN [get_medical_codes_respond(
                     [q EXCEPT !.calls = result.calls], result)
                     EXCEPT !.pc = "done"])
  /\ UNCHANGED <<containers, versions>>

\* ------------------------------------------------------- POST /send_email
\* lines 185-192: sendSecureEmail hands the message to the transport with a
\* callback and returns; the response is written before the callback runs
send_email_respond(q, throws) ==
  IF throws
  THEN [Send(q, 500, <<<<"error", "Error">>>>) EXCEPT !.pc = "done"]
  ELSE [Send([q EXCEPT !.mail = "pending"], 200,
             <<<<"message", "Email sent successfully!">>>>)
          EXCEPT !.pc = "sendMail"]

SendEmail(throws) ==
  /\ Len(reqs) < MaxReqs
  /\ reqs' = Append(reqs, send_email_respond(
                 NewReq("send_email", [throws |-> throws]), throws))
  /\ UNCHANGED <<containers, versions>>

\* variant: the callback reports a delivery error to the caller
sendMail_callback_responds(q, outcome) ==
  IF outcome = "error"
  THEN [Send(q, 500, <<<<"error", "Error">>>>) EXCEPT !.mail = outcome, !.pc = "done"]
  ELSE [q EXCEPT !.mail = outcome, !.pc = "done"]

\* lines 172-178: the callback logs the error or the transport's reply
sendMail_callback(q, outcome) == [q EXCEPT !.mail = outcome, !.pc = "done"]

SendMailCallback(j, outcome) ==
  /\ j \in 1..Len(reqs)
  /\ reqs[j].pc = "sendMail"
  /\ reqs' = [reqs EXCEPT ![j] = sendMail_callback(reqs[j], outcome)]
  /\ UNCHANGED <<containers, versions>>

\* ------------------------------------------------------------ the system
Next ==
  \/ \E p \in QueryPatientIds : GetCredentials(p)
  \/ \E j \in 1..MaxReqs, o \in AccessOutcomes : AccessSecretVersionReturn(j, o)
  \/ \E u \in Usernames, pw \in Passwords, e \in EhrTypes, p \in PatientIds :
       StoreCredentials(u, pw, e, p)
  \/ \E j \in 1..MaxReqs, o \in ProviderOutcomes, fo \in FaultOutcomes :
       CreateSecretReturn(j, o, fo)
  \/ \E j \in 1..MaxReqs, o \in ProviderOutcomes, fo \in FaultOutcomes :
       AddSecretVersionReturn(j, o, fo)
  \/ \E d \in Diagnoses, env \in Envs \cup {NoEnv} : GetMedicalCodes(d, env)
  \/ \E t \in BOOLEAN : SendEmail(t)
  \/ \E j \in 1..MaxReqs, o \in {"error", "sent"} : SendMailCallback(j, o)

Spec == Init /\ [][Next]_vars

\* ------------------------------------------------------------ properties
R == 1..Len(reqs)
Settled(q) == q.pc \in {"done", "faulted"}
Defined(obj) == SelectSeq(obj, LAMBDA m : m[2] # Undefined)

\* C1: a storeCredentials request that has run to its end raised no fault and
\* got exactly one response, and when the version was written that response
\* is 200 {status: 'success', secret_version_id: <the version's name>}.
C1_NoNullDereference ==
  \A j \in R :
    (reqs[j].kind = "storeCredentials" /\ Settled(reqs[j])) =>
      /\ reqs[j].fault = "none"
      /\ reqs[j].nresp = 1
      /\ (<<"addSecretVersion", "ok">> \in {reqs[j].calls[n] : n \in DOMAIN reqs[j].calls})
           => /\ reqs[j].status = 200
              /\ reqs[j].body[1] = <<"status", "success">>
              /\ reqs[j].body[2] =
                   <<"secret_version_id", VersionName(reqs[j].in.patient_id, 1)>>

\* C2: a get_medical_codes request with a non-empty diagnosis whose pipeline
\* fails at any step (code table, embedding, index query) got exactly one
\* response, 500 {error: 'Failed to retrieve medical codes'}, and no fault.
PipelineFailed(q) ==
  \/ loadMedCodes.tag = "throw"
  \/ q.in.env.embed # "ok"
  \/ q.in.env.index # "ok"

C2_PipelineFailureIs500 ==
  \A j \in R :
    (/\ reqs[j].kind = "get_medical_codes"
     /\ ~Falsy(reqs[j].in.diagnosis)
     /\ PipelineFailed(reqs[j])) =>
      /\ reqs[j].pc = "done"
      /\ reqs[j].fault = "none"
      /\ reqs[j].nresp = 1
      /\ reqs[j].status = 500
      /\ reqs[j].body = <<<<"error", "Failed to retrieve medical codes">>>>

C2_Witness ==
  \E j \in R :
    /\ reqs[j].kind = "get_medical_codes"
    /\ ~Falsy(reqs[j].in.diagnosis)
    /\ reqs[j].in.env.embed = "reject"
    /\ reqs[j].status = 500
    /\ reqs[j].nresp = 1

\* C3: a get_medical_codes request with a non-empty diagnosis for which the
\* embedding provider and the index both succeed is answered 200 {codes},
\* one entry per match in order, code = match.id and description = the
\* table's entry, or 'Description not found' when the id is not in the table.
ExpectedCodes(matches) ==
  [n \in 1..Len(matches) |->
     [code |-> matches[n].id,
      description |-> IF matches[n].id \in DOMAIN MedCodesTable
                      THEN MedCodesTable[matches[n].id]
                      ELSE "Description not found"]]

C3_CodesForMatches ==
  \A j \in R :
    (/\ reqs[j].kind = "get_medical_codes"
     /\ ~Falsy(reqs[j].in.diagnosis)
     /\ reqs[j].in.env.embed = "ok"
     /\ reqs[j].in.env.index = "ok") =>
      /\ reqs[j].status = 200
      /\ reqs[j].body = <<<<"codes", ExpectedCodes(reqs[j].in.env.matches)>>>>

\* C4: when a storeCredentials request for patient p was answered 200 and a
\* getCredentials request for p read the secret without provider failure,
\* the latter is answered 200 with exactly the username, password and
\* ehr_type of the former.
StoredBy(i, j) ==
  /\ reqs[i].kind = "storeCredentials"
  /\ reqs[i].status = 200
  /\ reqs[j].kind = "getCredentials"
  /\ reqs[j].calls = <<<<"accessSecretVersion", "ok">>>>
  /\ reqs[j].in.patient_id = reqs[i].in.patient_id

C4_RoundTrip ==
  \A i \in R : \A j \in R :
    StoredBy(i, j) =>
      /\ reqs[j].status = 200
      /\ reqs[j].nresp = 1
      /\ reqs[j].body = Defined(<<<<"username", reqs[i].in.username>>,
                                  <<"password", reqs[i].in.password>>,
                                  <<"ehr_type", reqs[i].in.ehr_type>>>>)

C4_Witness ==
  \E i \in R : \E j \in R :
    /\ StoredBy(i, j)
    /\ i < j
    /\ reqs[i].in.username # Undefined
    /\ Len(reqs[j].body) = 3

\* C5: a send_email request that handed its message to the transport has
\* its one response, 200 {message: 'Email sent successfully!'}, before the
\* callback runs, and keeps exactly that response whatever the callback
\* reports.
C5_FireAndForget ==
  \A j \in R :
    (reqs[j].kind = "send_email" /\ reqs[j].mail # "none") =>
      /\ reqs[j].status = 200
      /\ reqs[j].body = <<<<"message", "Email sent successfully!">>>>
      /\ reqs[j].nresp = 1
      /\ reqs[j].fault = "none"

C5_Witness ==
  \E j \in R :
    /\ reqs[j].kind = "send_email"
    /\ reqs[j].mail = "error"
    /\ reqs[j].status = 200

\* C6: a step in which one request fails (a fault, an error response or a
\* rejected provider call) leaves every other request as it was.
Failed(q) ==
  \/ q.fault # "none"
  \/ q.status >= 400
  \/ \E n \in DOMAIN q.calls : q.calls[n][2] # "ok"

C6_NoCrossRequestEffects ==
  [][\A j \in 1..Len(reqs') :
       (Failed(reqs'[j]) /\ (j \in R => ~Failed(reqs[j]))) =>
         \A i \in R : (i # j) => reqs'[i] = reqs[i]]_vars

\* C7: a getCredentials request whose secret read fails (the provider
\* rejects, or the payload is not JSON) is answered 404
\* {message: 'Failed to fetch credentials'} and raises no fault.
C7_FetchFailureIs404 ==
  \A j \in R :
    (/\ reqs[j].kind = "getCredentials"
     /\ reqs[j].calls # <<>>
     /\ reqs[j].calls[1][2] \in {"reject", "badPayload"}) =>
      /\ reqs[j].pc = "done"
      /\ reqs[j].fault = "none"
      /\ reqs[j].nresp = 1
      /\ reqs[j].status = 404
      /\ reqs[j].body = <<<<"message", "Failed to fetch credentials">>>>

C7_Witness ==
  \E j \in R :
    /\ reqs[j].kind = "getCredentials"
    /\ reqs[j].calls = <<<<"accessSecretVersion", "badPayload">>>>
    /\ reqs[j].status = 404

\* C8: a getCredentials request without a patient_id (absent or empty) is
\* answered 400 {message: 'patient_id is required'} and calls no provider.
C8_MissingPatientId ==
  \A j \in R :
    (reqs[j].kind = "getCredentials" /\ Falsy(reqs[j].in.patient_id)) =>
      /\ reqs[j].pc = "done"
      /\ reqs[j].nresp = 1
      /\ reqs[j].status = 400
      /\ reqs[j].body = <<<<"message", "patient_id is required">>>>
      /\ reqs[j].calls = <<>>

C8_Witness ==
  \E j \in R :
    /\ reqs[j].kind = "getCredentials"
    /\ reqs[j].in.patient_id = ""
    /\ reqs[j].status = 400

\* C9: a get_medical_codes request without a diagnosis (absent or empty) is
\* answered 400 {error: 'No diagnosis text provided'} and calls neither the
\* embedding provider nor the vector index.
C9_MissingDiagnosis ==
  \A j \in R :
    (reqs[j].kind = "get_medical_codes" /\ Falsy(reqs[j].in.diagnosis)) =>
      /\ reqs[j].pc = "done"
      /\ reqs[j].nresp = 1
      /\ reqs[j].status = 400
      /\ reqs[j].body = <<<<"error", "No diagnosis text provided">>>>
      /\ reqs[j].calls = <<>>

C9_Witness ==
  \E j \in R :
    /\ reqs[j].kind = "get_medical_codes"
    /\ reqs[j].in.diagnosis = ""
    /\ reqs[j].status = 400

\* C10: a storeCredentials request calls add-version at most once and only
\* after its own container creation succeeded, every stored version was
\* written by such a request, and the step in which a container creation
\* fails changes no secret.
AddCalls(q) == {n \in DOMAIN q.calls : q.calls[n][1] = "addSecretVersion"}

C10_StoreOrder ==
  /\ \A j \in R :
       reqs[j].kind = "storeCredentials" =>
         /\ Cardinality(AddCalls(reqs[j])) <= 1
         /\ \A n \in AddCalls(reqs[j]) :
              n = 2 /\ reqs[j].calls[1] = <<"createSecret", "ok">>
  /\ \A p \in PatientIds :
       Len(versions[p]) =
         Cardinality({j \in R : /\ reqs[j].kind = "storeCredentials"
                                 /\ reqs[j].in.patient_id = p
                                 /\ Len(reqs[j].calls) = 2
                                 /\ reqs[j].calls[2] = <<"addSecretVersion", "ok">>})

C10_FailedCreateWritesNothing ==
  \A j \in R :
    (/\ reqs[j].pc = "createSecret"
     /\ reqs'[j].calls = <<<<"createSecret", "reject">>>>) =>
      /\ versions' = versions
      /\ containers' = containers
      /\ reqs'[j].pc # "addSecretVersion"

C10_OneVersionAfterCreate ==
  []C10_StoreOrder /\ [][C10_FailedCreateWritesNothing]_vars

C10_Witness ==
  \E i \in R : \E j \in R :
    /\ reqs[i].kind = "storeCredentials" /\ reqs[i].status = 200
    /\ reqs[j].kind = "storeCredentials"
    /\ reqs[j].in.patient_id = reqs[i].in.patient_id
    /\ reqs[j].calls = <<<<"createSecret", "reject">>>>
    /\ Len(versions[reqs[i].in.patient_id]) = 1
====
